---------------------------- MODULE Spec2Model ----------------------------
(***************************************************************************)
(* The what-if simulation of pedestrian-api (src/api/app.py): the edit     *)
(* applier _apply_edits with its endpoint snapper _snap_ls, the feature    *)
(* table _build_features, the prediction step and the before/after join of *)
(* simulate(), preceded by the checks simulate() makes on its payload.     *)
(* Spec is one simulate() request.  SpecGraph is one call of the graph     *)
(* builder _graph_from_edges, which simulate() does not make.              *)
(*                                                                         *)
(* Geometry is kept on an integer grid.  A WGS84 coordinate is a grid      *)
(* point <<x, y>>; the metric projection multiplies by MetersPerUnit and   *)
(* the way back divides by it.  Lengths are whole metres (each leg of a    *)
(* polyline rounded down).  Segment ids are strings, the synthetic id is   *)
(* the code's "e_add_%06d" string.                                         *)
(***************************************************************************)
EXTENDS Integers, Sequences, FiniteSets, TLC

VARIABLES
    req,        \* the fields of the payload simulate() reads first
    base,       \* base_edges of simulate(): rows in WGS84, read from the source
    base0,      \* history: base_edges as the source returned them
    out,        \* the working copy of _apply_edits, rows in metres
    nEdits,     \* how many edits of the request the loop has consumed
    last,       \* the edit the loop consumed last (NullEdit before the first)
    prev,       \* history: the working copy before the last iteration
    lastNamed,  \* history: the op of the last edit that named TrackedId
    allSkipped, \* history: every edit consumed so far was a skipped one
    pc,         \* position of simulate(): request, rejected, request_failed, fetched, edits,
                \* centrality, features, predict, diff, done, failed
    scen,       \* scen_edges: what _apply_edits returned
    stages,     \* history: the stage functions called since the fetch, in order
    cen0, cen1, \* the centrality mappings of the baseline and of the scenario
    X0, X1,     \* the feature tables of the baseline and of the scenario
    mode,       \* how the prediction step ran: none, oracle, fail0, fail1
    pred0, pred1, \* df0["pred"], df1["pred"]
    result,     \* the rows of the returned FeatureCollection
    gRows,      \* E of _graph_from_edges: the rows of the edge set, projected
    gIdx,       \* how many rows the loop of _graph_from_edges has consumed
    G,          \* the graph under construction: edge key -> length, edge_ids
    gpc         \* position of _graph_from_edges: idle, loop, returned

vars == <<req, base, base0, out, nEdits, last, prev, lastNamed, allSkipped, pc, scen, stages, cen0, cen1, X0, X1, mode, pred0, pred1, result, gRows, gIdx, G, gpc>>

\* the variables of a call of _graph_from_edges on its own
graphVars == <<gRows, gIdx, G, gpc>>

\* the variables of a simulate() request
simVars == <<req, base, base0, out, nEdits, last, prev, lastNamed, allSkipped, pc, scen, stages, cen0, cen1, X0, X1, mode, pred0, pred1, result>>

---------------------------------------------------------------------------
(* Bounds and program constants *)

\* how many edits one request carries at most
MaxEdits == 3

\* snap_tol_m = 8.0, the tolerance simulate() passes
SnapTolM == 8

\* metres per grid unit of the geographic coordinates
MetersPerUnit == 4

---------------------------------------------------------------------------
(* Helpers on sequences *)

RECURSIVE SeqSum(_)
SeqSum(s) == IF s = <<>> THEN 0 ELSE Head(s) + SeqSum(Tail(s))

RECURSIVE Flatten(_)
Flatten(ss) == IF ss = <<>> THEN <<>> ELSE Head(ss) \o Flatten(Tail(ss))

\* floor of the square root
ISqrt(n) == CHOOSE r \in 0..n : r * r <= n /\ (r + 1) * (r + 1) > n

---------------------------------------------------------------------------
(* Coordinates, projection, length *)

\* gdf.to_crs(3857): geographic coordinate to metres
PtToMeters(p) == <<p[1] * MetersPerUnit, p[2] * MetersPerUnit>>

\* gdf.to_crs(4326): metres back to a geographic coordinate
PtToWgs84(p) == <<p[1] \div MetersPerUnit, p[2] \div MetersPerUnit>>

LsToMeters(ls) == [i \in DOMAIN ls |-> PtToMeters(ls[i])]

LsToWgs84(ls) == [i \in DOMAIN ls |-> PtToWgs84(ls[i])]

\* squared distance between two points in metres
Dist2(p, q) == (p[1] - q[1]) * (p[1] - q[1]) + (p[2] - q[2]) * (p[2] - q[2])

\* geom.length of a polyline in metres; an empty geometry has length 0
LsLength(ls) ==
    IF Len(ls) < 2 THEN 0
    ELSE SeqSum([i \in 1..(Len(ls) - 1) |-> ISqrt(Dist2(ls[i], ls[i + 1]))])

---------------------------------------------------------------------------
(* Segments, baselines and edits: the inputs of one request *)

\* e.get("edge_id") of an edit that carries no id: None, falsy
NoId == ""

\* e.get("highway") of an edit that carries none
NoHighway == ""

\* the osmid of an added row: e.get("osmid") or None
NoOsmid == 0

PtA == <<0, 0>>
PtB == <<2, 0>>
PtC == <<3, 1>>

Segment(id, osm, hw, len, geom) ==
    [edge_id |-> id, osmid |-> osm, highway |-> hw, length |-> len, geometry |-> geom]

\* the rows the network source may return for e1: its length column is the
\* source's own value, which need not be the planar length of the geometry
BaseRowsE1 ==
    { Segment("e1", 101, "footway", l, <<PtA, PtB>>) :
        l \in {LsLength(LsToMeters(<<PtA, PtB>>)), LsLength(LsToMeters(<<PtA, PtB>>)) - 1} }

\* the rows the source may return for e2: a line from B to C, or an empty geometry
BaseRowsE2 ==
    { Segment("e2", 102, "residential", LsLength(LsToMeters(<<PtB, PtC>>)), <<PtB, PtC>>),
      Segment("e2", 102, "residential", 0, <<>>) }

\* the baseline edge sets: ids pairwise distinct
Baselines ==
    {<<>>} \cup { <<r>> : r \in BaseRowsE1 \cup BaseRowsE2 }
           \cup { <<r1, r2>> : r1 \in BaseRowsE1, r2 \in BaseRowsE2 }

\* GeoJSON geometries of an edit: missing, a Point, LineStrings
NoGeometry == [type |-> "", coordinates |-> <<>>]
PointGeometry == [type |-> "Point", coordinates |-> <<<<1, 1>>>>]
LineString(cs) == [type |-> "LineString", coordinates |-> cs]

\* polylines a user draws, in geographic grid coordinates
DrawnLines == { <<<<2, 3>>, <<1, 1>>, <<0, 2>>>>, <<<<0, 1>>, <<2, 1>>>> }

\* a LineString of one coordinate: shapely's LineString() raises on it
OnePointLine == <<<<1, 1>>>>

EditGeometries ==
    {NoGeometry, PointGeometry, LineString(OnePointLine)} \cup { LineString(cs) : cs \in DrawnLines }

\* the id the history variable lastNamed follows
TrackedId == "e1"

EditIds == {NoId, TrackedId}

Edit(o, id, g, hw) == [op |-> o, edge_id |-> id, geometry |-> g, highway |-> hw]

\* the edits a request may carry
Edits ==
    { Edit("delete", id, NoGeometry, NoHighway) : id \in EditIds }
    \cup { Edit(o, NoId, NoGeometry, NoHighway) : o \in {"rotate", ""} }
    \cup { Edit(o, id, g, hw) :
             o \in {"add", "Reshape"}, id \in EditIds, g \in EditGeometries,
             hw \in {NoHighway, "primary"} }

NullEdit == Edit("", NoId, NoGeometry, NoHighway)

\* str.lower() on the op strings of the model
Lower(s) == IF s = "Reshape" THEN "reshape" ELSE s

\* op = (e.get("op") or e.get("action") or "").lower()
OpOf(e) == Lower(e.op)

IdsOf(rows) == { rows[i].edge_id : i \in DOMAIN rows }

\* the number of rows of a table that carry an id
CountId(rows, id) == Cardinality({ i \in DOMAIN rows : rows[i].edge_id = id })

---------------------------------------------------------------------------
(* the request fields simulate() reads before the baseline *)

\* payload.get("place"): a value with its type; None is the non-string
\* with no text
NoPlace == [isStr |-> FALSE, text |-> ""]
Places == { NoPlace,
            [isStr |-> TRUE, text |-> "Tel Aviv"],
            [isStr |-> TRUE, text |-> "  "],
            [isStr |-> FALSE, text |-> "7"] }

\* place.strip()
Strip(t) == IF t = "  " THEN "" ELSE t

\* place and isinstance(place, str) and place.strip()
UsablePlace(pl) == pl.text # "" /\ pl.isStr /\ Strip(pl.text) # ""

\* payload.get("bbox"): str(bbox).split(","), the empty sequence when the
\* field is missing or empty
NoBbox == <<>>
Bboxes == { NoBbox,
            <<"0", "0", "1", "1">>,
            <<"0", "0", "1">>,
            <<"0", "x", "1", "1">>,
            <<"1", "0", "0", "1">>,
            <<"0", "0", "0", "1">> }

\* float(x) of a part: raises on a part that is not a number
FloatRaises(t) == t \notin {"0", "1"}
ToFloat(t) == IF t = "1" THEN 1 ELSE 0

\* mutant of BboxParses: the assert is missing
BboxParsesNoAssert(b) ==
    /\ Len(b) = 4
    /\ \A i \in DOMAIN b : ~FloatRaises(b[i])

\* the try of lines 595 to 599 passes: four parts, all floats, w < e, s < n
BboxParses(b) ==
    /\ Len(b) = 4
    /\ \A i \in DOMAIN b : ~FloatRaises(b[i])
    /\ ToFloat(b[1]) < ToFloat(b[3])
    /\ ToFloat(b[2]) < ToFloat(b[4])

\* payload.get("max_features", 8000): the default when missing
NoMaxFeatures == ""
MaxFeatureValues == { NoMaxFeatures, "50", "many" }

\* int(...) raises on text that is not an integer
IntRaises(t) == t = "many"

\* a payload: edits is a list or is not
Requests ==
    [ place : Places, bbox : Bboxes, edits_is_list : BOOLEAN,
      max_features : MaxFeatureValues ]

\* the payload once its fields other than the edits are no longer read
NoRequest ==
    [ place |-> NoPlace, bbox |-> NoBbox, edits_is_list |-> TRUE,
      max_features |-> NoMaxFeatures ]

\* simulate() reaches a fetch: edits is a list, and the place is usable
\* or, only then looked at, the bbox is given and parses
Accepted(r) ==
    /\ r.edits_is_list
    /\ \/ UsablePlace(r.place)
       \/ r.bbox # NoBbox /\ BboxParses(r.bbox)

---------------------------------------------------------------------------
(* _apply_edits *)

\* g_m = _to_meters(_to_wgs84(base_edges)).copy()
BaseInMeters(b) == [i \in DOMAIN b |-> [b[i] EXCEPT !.geometry = LsToMeters(b[i].geometry)]]

\* the endpoint index ep_gdf: first and last point of every non-empty
\* geometry of the baseline, in row order
Endpoints(gm) ==
    Flatten([i \in DOMAIN gm |->
        IF gm[i].geometry = <<>> THEN <<>>
        ELSE <<gm[i].geometry[1], gm[i].geometry[Len(gm[i].geometry)]>>])

\* mutant of SnapTargets: the endpoint index is rebuilt from the working
\* table at every edit
SnapTargetsOfWorking(b, o) == Endpoints(o)

\* the endpoints a new polyline may snap to: ep_gdf is built once from g_m,
\* before the loop, and the loop never touches it; the working table o
\* plays no part
SnapTargets(b, o) == Endpoints(BaseInMeters(b))

\* dists.idxmin(): the first index of the minimal distance
NearestIdx(eps, P) ==
    CHOOSE j \in DOMAIN eps :
        /\ \A k \in DOMAIN eps : Dist2(eps[j], P) <= Dist2(eps[k], P)
        /\ \A k \in 1..(j - 1) : Dist2(eps[k], P) > Dist2(eps[j], P)

\* mutant of WithinTol: the tolerance itself is excluded
WithinTolStrict(p, q) == Dist2(p, q) < SnapTolM * SnapTolM

\* dists.loc[j] <= snap_tol_m
WithinTol(p, q) == Dist2(p, q) <= SnapTolM * SnapTolM

\* one end of _snap_ls: the nearest endpoint when within tolerance, else P
SnapEnd(eps, P) ==
    IF WithinTol(eps[NearestIdx(eps, P)], P) THEN eps[NearestIdx(eps, P)] ELSE P

\* _snap_ls(ls): both ends are looked up from the original coordinates
SnapLs(eps, ls) ==
    IF eps = <<>> THEN ls
    ELSE [i \in DOMAIN ls |->
            IF i = 1 \/ i = Len(ls) THEN SnapEnd(eps, ls[i]) ELSE ls[i]]

\* f"e_add_{n:06d}"
SynthId(n) ==
    LET d == ToString(n)
        pad == CASE n < 10 -> "00000" [] n < 100 -> "0000" [] n < 1000 -> "000"
                 [] n < 10000 -> "00" [] n < 100000 -> "0" [] OTHER -> ""
    IN  "e_add_" \o pad \o d

\* mutant of DropId: the filter keeps the named rows instead of the others
DropIdInverted(rows, id) == SelectSeq(rows, LAMBDA r : r.edge_id = id)

\* out[out["edge_id"] != id].copy()
DropId(rows, id) == SelectSeq(rows, LAMBDA r : r.edge_id # id)

\* not geom_geojson or geom_geojson.get("type") != "LineString"
BadGeometry(g) == g = NoGeometry \/ g.type # "LineString"

\* LineString(geom_geojson["coordinates"]) raises
Raises(e) ==
    /\ OpOf(e) \in {"add", "reshape"}
    /\ ~BadGeometry(e.geometry)
    /\ Len(e.geometry.coordinates) = 1

\* mutant of NewId: the id of the edit is used only when the working set
\* holds it
NewIdIfPresent(o, e) ==
    IF e.edge_id # NoId /\ e.edge_id \in { o[i].edge_id : i \in DOMAIN o }
    THEN e.edge_id ELSE SynthId(Len(o) + 1)

\* "edge_id": e.get("edge_id") or f"e_add_{len(out)+1:06d}"
NewId(o, e) == IF e.edge_id # NoId THEN e.edge_id ELSE SynthId(Len(o) + 1)

\* the row an add or reshape builds
NewRow(eps, o, e) ==
    LET new_ls == SnapLs(eps, LsToMeters(e.geometry.coordinates))
    IN  Segment(NewId(o, e), NoOsmid,
                IF e.highway # NoHighway THEN e.highway ELSE "unclassified",
                LsLength(new_ls), new_ls)

\* mutant of ApplyOne: a reshape appends without removing its target
ApplyOneNoRemove(eps, o, e) ==
    IF OpOf(e) = "delete" /\ e.edge_id # NoId
    THEN DropId(o, e.edge_id)
    ELSE IF OpOf(e) \in {"add", "reshape"}
    THEN IF BadGeometry(e.geometry) THEN o
         ELSE Append(o, NewRow(eps, o, e))
    ELSE o

\* mutant of ApplyOne: a reshape removes its target before looking at the
\* geometry
ApplyOneRemoveFirst(eps, o, e) ==
    IF OpOf(e) = "delete" /\ e.edge_id # NoId
    THEN DropId(o, e.edge_id)
    ELSE IF OpOf(e) \in {"add", "reshape"}
    THEN LET kept == IF OpOf(e) = "reshape" /\ e.edge_id # NoId
                     THEN DropId(o, e.edge_id) ELSE o
         IN  IF BadGeometry(e.geometry) THEN kept
             ELSE Append(kept, NewRow(eps, o, e))
    ELSE o

\* one iteration of the loop over the edits, on the working copy o
ApplyOne(eps, o, e) ==
    IF OpOf(e) = "delete" /\ e.edge_id # NoId
    THEN DropId(o, e.edge_id)
    ELSE IF OpOf(e) \in {"add", "reshape"}
    THEN IF BadGeometry(e.geometry) THEN o
         ELSE LET kept == IF OpOf(e) = "reshape" /\ e.edge_id # NoId
                          THEN DropId(o, e.edge_id) ELSE o
              IN  Append(kept, NewRow(eps, o, e))
    ELSE o

\* mutant of Finish: the geometry is returned in metres
FinishInMeters(o) ==
    [i \in DOMAIN o |-> [o[i] EXCEPT !.length = LsLength(o[i].geometry)]]

\* the tail of _apply_edits: back to WGS84, length recomputed in metres
Finish(o) ==
    [i \in DOMAIN o |->
        [o[i] EXCEPT !.geometry = LsToWgs84(o[i].geometry),
                     !.length = LsLength(o[i].geometry)]]

\* the caller's base_edges after _apply_edits(base_edges, edits): the loop
\* and the length assignment act on frames derived by to_crs and copy, o
\* among them, and the argument keeps its rows
ArgAfterApplyEdits(b, o) == b

---------------------------------------------------------------------------
(* _graph_from_edges and the keys of _centrality_features; coordinates of
   projected rows are in ticks of a tenth of a millimetre *)

\* the rows a call may be given: at most this many
MaxRows == 4

\* round(c, 3) of a coordinate in ticks, in millimetres: to the nearest,
\* a tie to the even one
Round3(c) ==
    LET q == c \div 10
        r == c % 10
    IN  IF r < 5 \/ (r = 5 /\ q % 2 = 0) THEN q ELSE q + 1

\* coord_to_tuple(coord)
CoordToTuple(pt) == <<Round3(pt[1]), Round3(pt[2])>>

\* an order of node keys, to name an undirected edge by one pair
NodeLess(u, v) == u[1] < v[1] \/ (u[1] = v[1] /\ u[2] < v[2])

\* mutant of EdgeKey: has_edge tells (u, v) from (v, u)
EdgeKeyDirected(u, v) == <<u, v>>

\* the edge of nx.Graph between u and v: undirected, (u, v) and (v, u) are
\* the same edge, u = v is a self-loop
EdgeKey(u, v) == IF NodeLess(v, u) THEN <<v, u>> ELSE <<u, v>>

\* nx.Graph()
EmptyGraph == [k \in {} |-> [length |-> 0, edge_ids |-> {}]]

\* geom is None or geom.is_empty
NoGeom(geom) == geom = <<>>

\* one row with a geometry: add_edge when the edge is new, with this row's
\* length, then the id joins the edge's set
GraphAddRow(g, row) ==
    LET u == CoordToTuple(row.geometry[1])
        v == CoordToTuple(row.geometry[Len(row.geometry)])
        k == EdgeKey(u, v)
        h == IF k \in DOMAIN g THEN g
             ELSE (k :> [length |-> LsLength(row.geometry), edge_ids |-> {}]) @@ g
    IN  [h EXCEPT ![k].edge_ids = @ \cup {row.edge_id}]

\* _graph_from_edges on projected rows: the loop, row by row
RECURSIVE GraphLoop(_, _, _)
GraphLoop(g, rows, i) ==
    IF i > Len(rows) THEN g
    ELSE IF NoGeom(rows[i].geometry) THEN GraphLoop(g, rows, i + 1)
    ELSE GraphLoop(GraphAddRow(g, rows[i]), rows, i + 1)

GraphFromEdges(rows) == GraphLoop(EmptyGraph, rows, 1)

\* the keys of the mapping _centrality_features returns: every id of every
\* edge of the graph
CentralityIds(g) == UNION { g[k].edge_ids : k \in DOMAIN g }

\* E = _to_meters(edges_wgs) of an edge set of simulate(), in ticks
TicksPerMeter == 10000
ProjectedRows(edges) ==
    [i \in DOMAIN edges |->
        [edge_id |-> edges[i].edge_id,
         geometry |-> [j \in DOMAIN edges[i].geometry |->
                        <<PtToMeters(edges[i].geometry[j])[1] * TicksPerMeter,
                          PtToMeters(edges[i].geometry[j])[2] * TicksPerMeter>>]]]

\* projected points: two that round to one node key, one apart, and an
\* interior point
GPt0 == <<0, 0>>
GPt0b == <<4, -3>>
GPt1 == <<16, 4>>
GMid == <<9, 9>>

\* the geometries of projected rows: none, a loop at one node key, and two
\* lines between the same node keys drawn in opposite directions
GraphLines ==
    { <<>>, <<GPt0, GMid, GPt0b>>, <<GPt0, GMid, GPt1>>, <<GPt1, GMid, GPt0b>> }

GraphIds == {"s1", "s2"}

GraphRow == [edge_id : GraphIds, geometry : GraphLines]

\* the edge sets a call is given
GraphInputs == UNION { [1..n -> GraphRow] : n \in 0..MaxRows }

---------------------------------------------------------------------------
(* _build_features, the prediction step and the join of simulate() *)

\* _highway_ordinal, in halves (0.5 is 1, 1.0 is 2, ...)
HighwayOrdinal(hw) ==
    CASE hw \in {"footway", "path", "steps", "pedestrian"} -> 1
      [] hw \in {"residential", "living_street", "service", "unclassified"} -> 2
      [] hw \in {"tertiary", "tertiary_link"} -> 4
      [] hw \in {"secondary", "secondary_link"} -> 6
      [] hw \in {"primary", "primary_link"} -> 8
      [] OTHER -> 3

\* cen0 = {} and cen1 = {}: the centrality mapping simulate() passes
EmptyCen == [id \in {} |-> [edge_betweenness |-> 0, edge_closeness |-> 0]]

\* cen.get(i, {}).get(key, 0.0)
CenGet(cen, id, key) == IF id \in DOMAIN cen THEN cen[id][key] ELSE 0

\* _build_features with feature_order None (simulate() finds no FEATURE_ORDER
\* global): by row, the edge_id of df and the four default columns of X
BuildFeatures(edges, cen) ==
    [i \in DOMAIN edges |->
        [edge_id |-> edges[i].edge_id,
         edge_length_m |-> edges[i].length,
         edge_betweenness |-> CenGet(cen, edges[i].edge_id, "edge_betweenness"),
         edge_closeness |-> CenGet(cen, edges[i].edge_id, "edge_closeness"),
         highway_ord |-> HighwayOrdinal(edges[i].highway)]]

\* mutant of ArgAfterBuildFeatures: without the copy the four columns are
\* written into the caller's frame
ArgAfterBuildFeaturesNoCopy(edges, cen) ==
    [i \in DOMAIN edges |->
        edges[i] @@ [edge_length_m |-> edges[i].length,
                     edge_betweenness |-> CenGet(cen, edges[i].edge_id, "edge_betweenness"),
                     edge_closeness |-> CenGet(cen, edges[i].edge_id, "edge_closeness"),
                     highway_ord |-> HighwayOrdinal(edges[i].highway)]]

\* the caller's frame after _build_features(edges, cen, None): the columns
\* are assigned on df = edges_wgs.copy(), the argument keeps its rows
ArgAfterBuildFeatures(edges, cen) == edges

\* the oracles a deployment may have loaded: m.predict(X.values), one value
\* per row, a function of the row's feature values
OracleKinds == {0, 1}

OraclePredict(k, x) ==
    (x.edge_length_m + x.highway_ord + x.edge_betweenness + x.edge_closeness + k) % 3

\* df["pred"] = df["edge_betweenness"]*1000, the proxy when no model is loaded
ProxyPredict(x) == x.edge_betweenness * 1000

\* np.zeros(len(X)): both passes after either m.predict raised
ZeroPredict(x) == 0

\* the prediction modes of one request
Modes == {"none", "oracle", "fail0", "fail1"}

\* mutant of PassSource: each pass has a try of its own, so the baseline
\* pass keeps the oracle's values when only the scenario pass raises
PassSourceSplit(m, pass) ==
    CASE m = "none" -> "none"
      [] m = "oracle" -> "oracle"
      [] m = "fail1" /\ pass = 0 -> "oracle"
      [] OTHER -> "zeros"

\* what fills the pred column of a pass (0 baseline, 1 scenario): one
\* try covers both m.predict calls and its except assigns both p0 and p1
PassSource(m, pass) ==
    CASE m = "none" -> "none"
      [] m = "oracle" -> "oracle"
      [] OTHER -> "zeros"

\* step 5 of simulate(): the pred column of one pass
PredColumn(m, k, X) ==
    [i \in DOMAIN X |->
        CASE m = "none" -> ProxyPredict(X[i])
          [] m = "oracle" -> OraclePredict(k, X[i])
          [] OTHER -> ZeroPredict(X[i])]

\* df[["edge_id","pred"]]
PredTable(X, pred) == [i \in DOMAIN X |-> [edge_id |-> X[i].edge_id, pred |-> pred[i]]]

\* merged["pred_before"].fillna(0.0) for a scenario row without a baseline row
DefaultBefore == 0

\* mutant of Merged: an inner join, scenario rows without a baseline row
\* are lost
MergedInner(left, right) ==
    Flatten([i \in DOMAIN right |->
        LET hits == SelectSeq(left, LAMBDA l : l.edge_id = right[i].edge_id)
        IN  [j \in DOMAIN hits |->
                [edge_id |-> right[i].edge_id, pred_before |-> hits[j].pred,
                 pred_after |-> right[i].pred, delta |-> right[i].pred - hits[j].pred]]])

\* merged = right.merge(left, on="edge_id", how="left"), pred_before filled,
\* delta = pred_after - pred_before
Merged(left, right) ==
    Flatten([i \in DOMAIN right |->
        LET hits == SelectSeq(left, LAMBDA l : l.edge_id = right[i].edge_id)
            row(b) == [edge_id |-> right[i].edge_id, pred_before |-> b,
                       pred_after |-> right[i].pred, delta |-> right[i].pred - b]
        IN  IF hits = <<>> THEN <<row(DefaultBefore)>>
            ELSE [j \in DOMAIN hits |-> row(hits[j].pred)]])

\* scen = scen_edges.merge(merged, on="edge_id", how="left")
Attach(edges, merged) ==
    Flatten([i \in DOMAIN edges |->
        LET hits == SelectSeq(merged, LAMBDA m : m.edge_id = edges[i].edge_id)
        IN  [j \in DOMAIN hits |->
                [edge_id |-> edges[i].edge_id, osmid |-> edges[i].osmid,
                 highway |-> edges[i].highway, length |-> edges[i].length,
                 geometry |-> edges[i].geometry, row |-> i,
                 pred_before |-> hits[j].pred_before,
                 pred_after |-> hits[j].pred_after,
                 delta |-> hits[j].delta]]])

---------------------------------------------------------------------------
(* The request as a state machine *)

Init ==
    /\ req \in Requests
    /\ base = <<>>
    /\ base0 = <<>>
    /\ out = <<>>
    /\ nEdits = 0
    /\ last = NullEdit
    /\ prev = <<>>
    /\ lastNamed = "none"
    /\ allSkipped = TRUE
    /\ pc = "request"
    /\ scen = <<>>
    /\ stages = <<>>
    /\ cen0 = EmptyCen
    /\ cen1 = EmptyCen
    /\ X0 = <<>>
    /\ X1 = <<>>
    /\ mode = "unset"
    /\ pred0 = <<>>
    /\ pred1 = <<>>
    /\ result = <<>>
    /\ gRows = <<>>
    /\ gIdx = 0
    /\ G = EmptyGraph
    /\ gpc = "idle"

\* lines 585 to 587 raise or answer 400, or the branch of lines 592 to 602
\* answers 400: nothing was fetched and nothing else runs
Reject ==
    /\ pc = "request"
    /\ \/ /\ IntRaises(req.max_features)
          /\ pc' = "request_failed"
       \/ /\ ~IntRaises(req.max_features)
          /\ ~Accepted(req)
          /\ pc' = "rejected"
    /\ UNCHANGED <<req, base, base0, out, nEdits, last, prev, lastNamed, allSkipped, scen, X0, X1, mode, pred0, pred1, result, stages, cen0, cen1>>
    /\ UNCHANGED graphVars

\* step 1 of simulate(): edges_from_place or edges_for_bbox returned, and
\* line 604 took the five columns
Fetch ==
    /\ pc = "request"
    /\ ~IntRaises(req.max_features)
    /\ Accepted(req)
    /\ base' \in Baselines
    /\ base0' = base'
    /\ pc' = "fetched"
    /\ UNCHANGED <<req, out, nEdits, last, prev, lastNamed, allSkipped, scen, X0, X1, mode, pred0, pred1, result, stages, cen0, cen1>>
    /\ UNCHANGED graphVars

\* the source raised (place not found, no network): simulate() answers 500
FetchRaises ==
    /\ pc = "request"
    /\ ~IntRaises(req.max_features)
    /\ Accepted(req)
    /\ pc' = "request_failed"
    /\ UNCHANGED <<req, base, base0, out, nEdits, last, prev, lastNamed, allSkipped, scen, X0, X1, mode, pred0, pred1, result, stages, cen0, cen1>>
    /\ UNCHANGED graphVars

\* entry of _apply_edits: g_m and the working copy; the payload fields
\* other than the edits are not read again
StartEdits ==
    /\ pc = "fetched"
    /\ out' = BaseInMeters(base)
    /\ req' = NoRequest
    /\ pc' = "edits"
    /\ UNCHANGED <<base, base0, nEdits, last, prev, lastNamed, allSkipped, scen, stages, cen0, cen1, X0, X1, mode, pred0, pred1, result>>
    /\ UNCHANGED graphVars

\* the history of TrackedId after the loop consumed e
Named(e) == IF e.edge_id = TrackedId THEN OpOf(e) ELSE lastNamed

\* the edits the loop passes over: an unknown op, or an add or reshape
\* without a LineString geometry
Skipped(e) ==
    \/ OpOf(e) \notin {"delete", "add", "reshape"}
    \/ OpOf(e) \in {"add", "reshape"} /\ BadGeometry(e.geometry)

\* one iteration of "for e in edits" that completes
ApplyEdit ==
    /\ pc = "edits"
    /\ nEdits < MaxEdits
    /\ \E e \in Edits :
        /\ ~Raises(e)
        /\ out' = ApplyOne(SnapTargets(base, out), out, e)
        /\ last' = e
        /\ lastNamed' = Named(e)
        /\ allSkipped' = (allSkipped /\ Skipped(e))
    /\ prev' = out
    /\ nEdits' = nEdits + 1
    /\ UNCHANGED <<req, base, base0, pc, scen, X0, X1, mode, pred0, pred1, result, stages, cen0, cen1>>
    /\ UNCHANGED graphVars

\* an iteration that raises: simulate() answers 500 and returns nothing else
EditRaises ==
    /\ pc = "edits"
    /\ nEdits < MaxEdits
    /\ \E e \in Edits :
        /\ Raises(e)
        /\ last' = e
        /\ lastNamed' = Named(e)
    /\ prev' = out
    /\ allSkipped' = FALSE
    /\ nEdits' = nEdits + 1
    /\ pc' = "failed"
    /\ UNCHANGED <<req, base, base0, out, scen, X0, X1, mode, pred0, pred1, result, stages, cen0, cen1>>
    /\ UNCHANGED graphVars

\* the edit list is exhausted: _apply_edits returns, its locals are gone
ReturnScenario ==
    /\ pc = "edits"
    /\ scen' = Finish(out)
    /\ base' = ArgAfterApplyEdits(base, out)
    /\ out' = <<>>
    /\ prev' = <<>>
    /\ last' = NullEdit
    /\ stages' = Append(stages, "_apply_edits")
    /\ pc' = "centrality"
    /\ UNCHANGED <<req, base0, nEdits, lastNamed, allSkipped, X0, X1, mode, pred0, pred1, result, cen0, cen1>>
    /\ UNCHANGED graphVars

\* step 3 of simulate(): the calls to _graph_from_edges and
\* _centrality_features are commented out, both mappings are set empty
Centrality ==
    /\ pc = "centrality"
    /\ cen0' = EmptyCen
    /\ cen1' = EmptyCen
    /\ pc' = "features"
    /\ UNCHANGED <<req, base, base0, out, nEdits, last, prev, lastNamed, allSkipped, scen, stages, X0, X1, mode, pred0, pred1, result>>
    /\ UNCHANGED graphVars

\* step 4 of simulate(): both feature tables
Features ==
    /\ pc = "features"
    /\ X0' = BuildFeatures(base, cen0)
    /\ X1' = BuildFeatures(scen, cen1)
    /\ base' = ArgAfterBuildFeatures(base, cen0)
    /\ scen' = ArgAfterBuildFeatures(scen, cen1)
    /\ stages' = stages \o <<"_build_features", "_build_features">>
    /\ pc' = "predict"
    /\ UNCHANGED <<req, base0, out, nEdits, last, prev, lastNamed, allSkipped, mode, pred0, pred1, result, cen0, cen1>>
    /\ UNCHANGED graphVars

\* step 5 of simulate(): both pred columns, by the same mode
Predict ==
    /\ pc = "predict"
    /\ \E m \in Modes, k \in OracleKinds :
        /\ m # "oracle" => k = 0
        /\ mode' = m
        /\ pred0' = PredColumn(PassSource(m, 0), k, X0)
        /\ pred1' = PredColumn(PassSource(m, 1), k, X1)
    /\ stages' = stages \o <<"predict", "predict">>
    /\ pc' = "diff"
    /\ UNCHANGED <<req, base, base0, out, nEdits, last, prev, lastNamed, allSkipped, scen, X0, X1, result, cen0, cen1>>
    /\ UNCHANGED graphVars

\* steps 6 and 7 of simulate(): the join and the returned rows
Diff ==
    /\ pc = "diff"
    /\ result' = Attach(scen, Merged(PredTable(X0, pred0), PredTable(X1, pred1)))
    /\ stages' = Append(stages, "diff")
    /\ pc' = "done"
    /\ UNCHANGED <<req, base, base0, out, nEdits, last, prev, lastNamed, allSkipped, scen, X0, X1, mode, pred0, pred1, cen0, cen1>>
    /\ UNCHANGED graphVars

\* a call of _graph_from_edges on its own: the rows, an empty nx.Graph
InitGraph ==
    /\ gRows \in GraphInputs
    /\ gIdx = 0
    /\ G = EmptyGraph
    /\ gpc = "loop"
    /\ req = NoRequest
    /\ base = <<>>
    /\ base0 = <<>>
    /\ out = <<>>
    /\ nEdits = 0
    /\ last = NullEdit
    /\ prev = <<>>
    /\ lastNamed = "none"
    /\ allSkipped = TRUE
    /\ pc = "idle"
    /\ scen = <<>>
    /\ stages = <<>>
    /\ cen0 = EmptyCen
    /\ cen1 = EmptyCen
    /\ X0 = <<>>
    /\ X1 = <<>>
    /\ mode = "unset"
    /\ pred0 = <<>>
    /\ pred1 = <<>>
    /\ result = <<>>

\* if edges_wgs.empty: return nx.Graph()
GraphEmptyReturn ==
    /\ gpc = "loop"
    /\ gRows = <<>>
    /\ gpc' = "returned"
    /\ UNCHANGED <<gRows, gIdx, G>>
    /\ UNCHANGED simVars

\* an iteration on a row without geometry: continue
GraphSkip ==
    /\ gpc = "loop"
    /\ gIdx < Len(gRows)
    /\ NoGeom(gRows[gIdx + 1].geometry)
    /\ gIdx' = gIdx + 1
    /\ UNCHANGED <<gRows, G, gpc>>
    /\ UNCHANGED simVars

\* an iteration on a row with a geometry
GraphAdd ==
    /\ gpc = "loop"
    /\ gIdx < Len(gRows)
    /\ ~NoGeom(gRows[gIdx + 1].geometry)
    /\ G' = GraphAddRow(G, gRows[gIdx + 1])
    /\ gIdx' = gIdx + 1
    /\ UNCHANGED <<gRows, gpc>>
    /\ UNCHANGED simVars

\* return G
GraphReturn ==
    /\ gpc = "loop"
    /\ gRows # <<>>
    /\ gIdx = Len(gRows)
    /\ gpc' = "returned"
    /\ UNCHANGED <<gRows, gIdx, G>>
    /\ UNCHANGED simVars

NextGraph == GraphEmptyReturn \/ GraphSkip \/ GraphAdd \/ GraphReturn

SpecGraph == InitGraph /\ [][NextGraph]_vars

Next == Reject \/ Fetch \/ FetchRaises \/ StartEdits \/ ApplyEdit \/ EditRaises \/ ReturnScenario \/ Centrality \/ Features \/ Predict \/ Diff

Spec == Init /\ [][Next]_vars

---------------------------------------------------------------------------
(* Properties *)

\* the loop has just completed an iteration on edit `last`
Stepped == pc = "edits" /\ nEdits > 0

\* simulate() holds the scenario _apply_edits returned
Returned == pc \in {"centrality", "features", "predict", "diff", "done"}

\* the last iteration appended a row: an add or reshape with a LineString
Appended == Stepped /\ OpOf(last) \in {"add", "reshape"} /\ ~BadGeometry(last.geometry)

\* the row the last iteration appended
NewSeg == out[Len(out)]

\* C1: the scenario edge set _apply_edits returns holds no two segments
\* with the same edge_id, whatever the edits were.
C1_ScenarioIdsUnique ==
    Returned => \A i, j \in DOMAIN scen : i # j => scen[i].edge_id # scen[j].edge_id

\* C2: the synthetic id generated for an Add without id differs from the id
\* of every segment that was in the working set when the edit was applied.
C2_SyntheticIdFresh ==
    (Appended /\ OpOf(last) = "add" /\ last.edge_id = NoId)
        => NewSeg.edge_id \notin IdsOf(prev)

\* a state in which a well-formed Reshape of an id present in the working
\* set has just been applied
ReshapedExisting ==
    /\ Appended
    /\ OpOf(last) = "reshape"
    /\ last.edge_id # NoId
    /\ last.edge_id \in IdsOf(prev)

\* the rows of a table that carry another id, in order
RowsNotOf(rows, id) == SelectSeq(rows, LAMBDA r : r.edge_id # id)

\* C3: reshaping an id that exists in the working set leaves exactly one
\* segment with that id, the new one, which carries the drawn (snapped)
\* geometry; the rows of every other id are the same rows in the same order.
C3_ReshapePreservesId ==
    ReshapedExisting =>
        /\ CountId(out, last.edge_id) = 1
        /\ NewSeg.edge_id = last.edge_id
        /\ NewSeg.geometry =
              SnapLs(Endpoints(BaseInMeters(base)), LsToMeters(last.geometry.coordinates))
        /\ RowsNotOf(out, last.edge_id) = RowsNotOf(prev, last.edge_id)

\* C3 witness: a reshape of an existing id was applied to a working set
\* that holds another segment as well
C3_Witness ==
    /\ ReshapedExisting
    /\ Len(prev) >= 2
    /\ NewSeg.geometry # prev[1].geometry

\* the ids of the rows simulate() returns
ResultIds == { result[i].edge_id : i \in DOMAIN result }

\* C4: when Delete is the last edit that names a baseline id, the scenario
\* holds no segment with that id and the output no row for it; a Delete of
\* an id that is not in the working set leaves the working set as it was.
C4_DeleteThenAbsence ==
    /\ (Returned /\ lastNamed = "delete") => TrackedId \notin IdsOf(scen)
    /\ (pc = "done" /\ lastNamed = "delete") => TrackedId \notin ResultIds
    /\ (Stepped /\ OpOf(last) = "delete" /\ last.edge_id \notin IdsOf(prev)) => out = prev

\* C4 witness: the request is answered, the tracked id had a baseline
\* prediction, Delete was the last edit naming it, other edits followed
C4_Witness ==
    /\ pc = "done"
    /\ lastNamed = "delete"
    /\ \E i \in DOMAIN base : base[i].edge_id = TrackedId /\ pred0[i] # 0
    /\ Len(result) >= 2

\* the smallest squared distance from P to an endpoint
MinDist2(eps, P) == CHOOSE d \in { Dist2(eps[k], P) : k \in DOMAIN eps } :
                        \A k \in DOMAIN eps : d <= Dist2(eps[k], P)

\* what the snapper owes one end: with an endpoint within the tolerance the
\* end sits on a nearest endpoint, otherwise it is where it was drawn
EndSnapped(eps, P, Q) ==
    IF eps # <<>> /\ MinDist2(eps, P) <= SnapTolM * SnapTolM
    THEN \E k \in DOMAIN eps : Q = eps[k] /\ Dist2(eps[k], P) = MinDist2(eps, P)
    ELSE Q = P

\* C5: of a new or reshaped polyline each end is decided on its own: within
\* the tolerance of an existing endpoint it lands exactly on the nearest one,
\* beyond it it keeps its coordinate; interior coordinates never change, and
\* without endpoints the polyline is the drawn one.
C5_SnapCorrect ==
    Appended =>
        LET eps == Endpoints(BaseInMeters(base))
            drawn == LsToMeters(last.geometry.coordinates)
            g == NewSeg.geometry
        IN  /\ Len(g) = Len(drawn)
            /\ EndSnapped(eps, drawn[1], g[1])
            /\ EndSnapped(eps, drawn[Len(drawn)], g[Len(g)])
            /\ \A i \in 2..(Len(g) - 1) : g[i] = drawn[i]
            /\ eps = <<>> => g = drawn

\* C5 witness: one end was moved onto an endpoint exactly at the tolerance,
\* the other end and an interior point within the tolerance stayed
C5_Witness ==
    /\ Appended
    /\ LET eps == Endpoints(BaseInMeters(base))
           drawn == LsToMeters(last.geometry.coordinates)
           g == NewSeg.geometry
       IN  /\ Len(g) = 3
           /\ g[1] = drawn[1]
           /\ g[3] # drawn[3]
           /\ Dist2(g[3], drawn[3]) = SnapTolM * SnapTolM
           /\ MinDist2(eps, drawn[2]) <= SnapTolM * SnapTolM
           /\ g[2] = drawn[2]

\* the baseline with every length replaced by the planar length of the
\* segment's geometry in the metric projection
BaselineRecomputed ==
    [i \in DOMAIN base |-> [base[i] EXCEPT !.length = LsLength(LsToMeters(base[i].geometry))]]

SkippedEditsChangeNothing ==
    /\ (Stepped /\ Skipped(last)) => out = prev
    /\ (pc = "failed") => ~Skipped(last)

\* C7 as claimed: an edit of unknown op, or an add or reshape without a
\* LineString geometry, is passed over without raising and without changing
\* the working set, so a list of only such edits returns the baseline edge set.
C7_SkippedYieldBaseline ==
    /\ SkippedEditsChangeNothing
    /\ (Returned /\ nEdits > 0 /\ allSkipped) => scen = base

\* C7 amended: such an edit is passed over without raising and without
\* changing the working set, so a list of only such edits returns what the
\* empty list returns: the baseline with its lengths recomputed.
C7_SkippedYieldEmptyListScenario ==
    /\ SkippedEditsChangeNothing
    /\ (Returned /\ nEdits > 0 /\ allSkipped) => scen = BaselineRecomputed

\* C7 witness: a list of skipped edits only, a Reshape without geometry
\* that names a baseline segment among them, was applied and returned
C7_Witness ==
    /\ Returned
    /\ nEdits >= 2
    /\ allSkipped
    /\ lastNamed = "reshape"
    /\ TrackedId \in IdsOf(scen)
    /\ scen # base

\* C8: every scenario segment has an output row with a pred_after (the
\* segment's own prediction when its id is unique); in every output row
\* pred_after is a scenario prediction for the row's id, pred_before is the
\* baseline prediction of that id, or 0 when the baseline has no such id,
\* and delta is pred_after - pred_before.
C8_DiffComplete ==
    pc = "done" =>
        /\ \A j \in DOMAIN scen : \E r \in DOMAIN result :
            /\ result[r].row = j
            /\ result[r].edge_id = scen[j].edge_id
            /\ CountId(scen, scen[j].edge_id) = 1 => result[r].pred_after = pred1[j]
        /\ \A r \in DOMAIN result :
            /\ \E j \in DOMAIN scen :
                scen[j].edge_id = result[r].edge_id /\ result[r].pred_after = pred1[j]
            /\ IF result[r].edge_id \in IdsOf(base)
               THEN \E i \in DOMAIN base :
                       base[i].edge_id = result[r].edge_id /\ result[r].pred_before = pred0[i]
               ELSE result[r].pred_before = 0
            /\ result[r].delta = result[r].pred_after - result[r].pred_before

\* C8 witness: an answered request with an added segment whose prediction
\* is not 0 and a kept baseline segment whose delta is not 0
C8_Witness ==
    /\ pc = "done"
    /\ \E r \in DOMAIN result :
        result[r].edge_id \notin IdsOf(base) /\ result[r].pred_after # 0
    /\ \E r \in DOMAIN result :
        /\ result[r].edge_id \in IdsOf(base)
        /\ result[r].pred_before # 0
        /\ result[r].delta # 0

\* C9: the output has exactly one row per scenario segment: as many rows
\* as the scenario has segments, and the same ids.
C9_OneRowPerSegment ==
    pc = "done" => Len(result) = Len(scen) /\ ResultIds = IdsOf(scen)

\* a state in which a well-formed Reshape naming an id that the working
\* set does not hold has just been applied
ReshapedMissing ==
    /\ Appended
    /\ OpOf(last) = "reshape"
    /\ last.edge_id # NoId
    /\ last.edge_id \notin IdsOf(prev)

\* C10 as claimed: a Reshape naming an id the working set does not hold
\* appends one segment under a generated id, not the named one, and removes
\* nothing.
C10_ReshapeMissingGetsFreshId ==
    ReshapedMissing =>
        /\ NewSeg.edge_id # last.edge_id
        /\ Len(out) = Len(prev) + 1
        /\ SubSeq(out, 1, Len(prev)) = prev

\* C10 amended: a Reshape naming an id the working set does not hold
\* appends one segment, which carries the named id and the drawn (snapped)
\* geometry, and removes nothing.
C10_ReshapeMissingKeepsNamedId ==
    ReshapedMissing =>
        /\ NewSeg.edge_id = last.edge_id
        /\ NewSeg.geometry =
              SnapLs(Endpoints(BaseInMeters(base)), LsToMeters(last.geometry.coordinates))
        /\ Len(out) = Len(prev) + 1
        /\ SubSeq(out, 1, Len(prev)) = prev

\* C10 witness: such a Reshape was applied to a working set that is not
\* empty
C10_Witness == ReshapedMissing /\ Len(prev) >= 1

\* the prediction step has run
Predicted == pc \in {"diff", "done"}

\* C11: within one request both pred columns come from the same mode: both
\* from the proxy, both from the same oracle, or, when either m.predict
\* raised, both all zeros; never oracle values on one side and fallback
\* values on the other.
C11_SameModeBothPasses ==
    Predicted =>
        \/ /\ mode = "none"
           /\ pred0 = [i \in DOMAIN X0 |-> X0[i].edge_betweenness * 1000]
           /\ pred1 = [i \in DOMAIN X1 |-> X1[i].edge_betweenness * 1000]
        \/ /\ mode = "oracle"
           /\ \E k \in OracleKinds :
               /\ pred0 = [i \in DOMAIN X0 |-> OraclePredict(k, X0[i])]
               /\ pred1 = [i \in DOMAIN X1 |-> OraclePredict(k, X1[i])]
        \/ /\ mode \in {"fail0", "fail1"}
           /\ \A i \in DOMAIN pred0 : pred0[i] = 0
           /\ \A i \in DOMAIN pred1 : pred1[i] = 0

\* C11 witness: the oracle raised on the scenario pass only, after it had
\* answered the baseline pass with a value that is not 0
C11_Witness ==
    /\ pc = "done"
    /\ mode = "fail1"
    /\ Len(pred1) >= 2
    /\ \E i \in DOMAIN X0 : OraclePredict(0, X0[i]) # 0

\* the end points of the baseline's segments, projected, as a set
BaselineEnds ==
    UNION { IF base[i].geometry = <<>> THEN {}
            ELSE { PtToMeters(base[i].geometry[1]),
                   PtToMeters(base[i].geometry[Len(base[i].geometry)]) } :
            i \in DOMAIN base }

\* the end points of the rows edits appended before the last one
EarlierAddedEnds ==
    UNION { IF prev[i].geometry = <<>> \/ (\E j \in DOMAIN base :
                   /\ base[j].edge_id = prev[i].edge_id
                   /\ LsToMeters(base[j].geometry) = prev[i].geometry)
            THEN {}
            ELSE { prev[i].geometry[1], prev[i].geometry[Len(prev[i].geometry)] } :
            i \in DOMAIN prev }

\* an end drawn at P that the edit left at Q respects the fixed targets: with
\* a baseline end within the tolerance it sits on a baseline end within the
\* tolerance, otherwise it is where it was drawn
EndOnBaselineOrDrawn(P, Q) ==
    IF \E t \in BaselineEnds : Dist2(t, P) <= SnapTolM * SnapTolM
    THEN Q \in BaselineEnds /\ Dist2(Q, P) <= SnapTolM * SnapTolM
    ELSE Q = P

\* C14: the snap targets are the baseline's endpoints, fixed before the first
\* edit: an end of a new polyline moves only onto a baseline endpoint, also
\* one of a segment an earlier edit deleted or reshaped away, and never onto
\* an endpoint an earlier edit added.
C14_SnapTargetsFixed ==
    Appended =>
        LET drawn == LsToMeters(last.geometry.coordinates)
            g == NewSeg.geometry
        IN  /\ EndOnBaselineOrDrawn(drawn[1], g[1])
            /\ EndOnBaselineOrDrawn(drawn[Len(drawn)], g[Len(g)])

\* C14 witness: the first end was drawn within the tolerance of an endpoint
\* an earlier edit added, off every baseline endpoint, and stayed; the last
\* end moved onto a baseline endpoint
C14_Witness ==
    /\ Appended
    /\ LET drawn == LsToMeters(last.geometry.coordinates)
           g == NewSeg.geometry
       IN  /\ \E t \in EarlierAddedEnds :
                 t # drawn[1] /\ Dist2(t, drawn[1]) <= SnapTolM * SnapTolM
           /\ g[1] = drawn[1]
           /\ g[Len(g)] # drawn[Len(drawn)]
           /\ g[Len(g)] \in BaselineEnds

\* C16: the baseline edge set is never modified: whatever edits are applied
\* and however far the simulation has run, base_edges holds the ids,
\* geometries and attribute values the source returned.
C16_BaselineUntouched == base = base0

\* C16 witness: a finished simulation over a baseline with segments whose
\* edits changed the set of ids and whose feature tables were built
C16_Witness ==
    /\ pc = "done"
    /\ nEdits > 0
    /\ base # <<>>
    /\ IdsOf(scen) # IdsOf(base)
    /\ Len(X0) = Len(base)
    /\ result # <<>>

\* no stage after the request checks has run
NothingRan ==
    /\ base = <<>> /\ base0 = <<>> /\ out = <<>> /\ nEdits = 0
    /\ scen = <<>> /\ stages = <<>> /\ X0 = <<>> /\ X1 = <<>>
    /\ mode = "unset" /\ pred0 = <<>> /\ pred1 = <<>> /\ result = <<>>

\* a bbox that is given and is not four numbers with west < east and
\* south < north
Malformed(b) ==
    /\ b # <<>>
    /\ \/ Len(b) # 4
       \/ \E i \in DOMAIN b : b[i] \notin {"0", "1"}
       \/ Len(b) = 4 /\ (\A i \in DOMAIN b : b[i] \in {"0", "1"})
                     /\ ~(b[1] = "0" /\ b[3] = "1" /\ b[2] = "0" /\ b[4] = "1")

\* the place field holds a name
PlaceGiven(pl) == pl.isStr /\ pl.text \notin {"", "  "}

\* C12 as stated: a request whose edits are not a list, that gives neither a
\* place nor a bbox, or whose bbox is malformed never gets its baseline
\* fetched.
C12_InvalidNeverFetched ==
    pc = "fetched" =>
        /\ req.edits_is_list
        /\ PlaceGiven(req.place) \/ req.bbox # <<>>
        /\ ~Malformed(req.bbox)

\* C12, amended: a request whose edits are not a list, or that gives no
\* place and either no bbox or a malformed one, never gets its baseline
\* fetched, and a rejected request ran no later stage; a malformed bbox
\* next to a place is not looked at.
C12_InvalidWithoutPlaceNeverFetched ==
    /\ pc = "fetched" =>
        /\ req.edits_is_list
        /\ PlaceGiven(req.place) \/ (req.bbox # <<>> /\ ~Malformed(req.bbox))
    /\ pc = "rejected" =>
        /\ NothingRan
        /\ \/ ~req.edits_is_list
           \/ ~PlaceGiven(req.place) /\ (req.bbox = <<>> \/ Malformed(req.bbox))
    /\ pc = "request_failed" => NothingRan

\* C12 witness: a request with a list of edits, no place and a bbox whose
\* west is not below its east was rejected
C12_Witness ==
    /\ pc = "rejected"
    /\ req.edits_is_list
    /\ ~PlaceGiven(req.place)
    /\ req.bbox = <<"1", "0", "0", "1">>

\* the stage functions the request flow names, in its order
SpecifiedStages ==
    <<"_apply_edits", "_graph_from_edges", "_graph_from_edges",
      "_centrality_features", "_centrality_features",
      "_build_features", "_build_features", "predict", "predict", "diff">>

\* C13: a successful request ran edit application, the graph build of the
\* baseline and of the scenario, the centrality of both, the feature assembly
\* of both, the prediction of both and the diff, in this order, and the
\* mapping each feature assembly was fed is the centrality of the graph of
\* its edge set, so it has an entry for every segment with a geometry.
C13_StagesInOrder ==
    pc = "done" =>
        /\ stages = SpecifiedStages
        /\ DOMAIN cen0 = CentralityIds(GraphFromEdges(ProjectedRows(base)))
        /\ DOMAIN cen1 = CentralityIds(GraphFromEdges(ProjectedRows(scen)))

\* the rows of the edge set the loop has consumed, those with a geometry
GraphedRows == { i \in 1..gIdx : gRows[i].geometry # <<>> }

\* the node pair a row joins, unordered: one key for a self-loop
RowNodes(i) ==
    { CoordToTuple(gRows[i].geometry[1]),
      CoordToTuple(gRows[i].geometry[Len(gRows[i].geometry)]) }

\* the node pair of an edge of the graph, unordered
EdgeNodes(k) == { k[1], k[2] }

\* C15: in the graph built from the rows consumed so far, a row with a
\* geometry has its id in the id set of the one edge that joins the rounded
\* coordinates of its first and last point, a self-loop when they are the
\* same key; there is one edge per unordered node pair, so rows joining the
\* same pair in either direction share it; and the id sets hold nothing
\* else, so a row without geometry contributes to no edge.
C15_GraphEdgesMatchSegments ==
    /\ \A i \in GraphedRows :
        \E k \in DOMAIN G :
            /\ EdgeNodes(k) = RowNodes(i)
            /\ gRows[i].edge_id \in G[k].edge_ids
    /\ \A k1, k2 \in DOMAIN G : EdgeNodes(k1) = EdgeNodes(k2) => k1 = k2
    /\ \A k \in DOMAIN G :
        G[k].edge_ids =
            { gRows[i].edge_id : i \in { j \in GraphedRows : RowNodes(j) = EdgeNodes(k) } }
    /\ gpc = "returned" => gIdx = Len(gRows)

\* C15 witness: a returned graph from rows of which one has no geometry, one
\* is a self-loop between two coordinates of one key, and two with different
\* ids join the same two keys in opposite directions and share an edge
C15_Witness ==
    /\ gpc = "returned"
    /\ \E i \in 1..gIdx : gRows[i].geometry = <<>>
    /\ \E i \in GraphedRows :
        /\ Cardinality(RowNodes(i)) = 1
        /\ gRows[i].geometry[1] # gRows[i].geometry[Len(gRows[i].geometry)]
    /\ \E i, j \in GraphedRows :
        /\ CoordToTuple(gRows[i].geometry[1]) =
               CoordToTuple(gRows[j].geometry[Len(gRows[j].geometry)])
        /\ CoordToTuple(gRows[j].geometry[1]) =
               CoordToTuple(gRows[i].geometry[Len(gRows[i].geometry)])
        /\ Cardinality(RowNodes(i)) = 2
        /\ gRows[i].edge_id # gRows[j].edge_id
        /\ \E k \in DOMAIN G : {gRows[i].edge_id, gRows[j].edge_id} \subseteq G[k].edge_ids
    /\ Cardinality(DOMAIN G) = 2

====
